---- MODULE Spec2Model ----
(***************************************************************************)
(* Model of the fetch / cache / slice core of src/app.py:                  *)
(*   _api_call_with_rate_limit  (rate-limited HTTP call, lines 28-59)      *)
(*   get_cached_or_fetch_data   (bucket cache and slicer, lines 62-127)    *)
(*   fetch_coin_list            (memoized catalog call, lines 10-25)       *)
(*   main                       (one run of the script, lines 130-451)     *)
(* The state is Streamlit's st.session_state of one session plus the wall  *)
(* clock, and the session state of a second session of the same process.   *)
(* Times are integers in tenths of a second.  A session runs one script    *)
(* thread; a call that has to fetch blocks in time.sleep and in            *)
(* requests.get, and entering the call, the end of the sleep and the end   *)
(* of the request are steps of their own.  Streamlit can stop a script run *)
(* in any st.* call, and a call stopped there is one of the outcomes of    *)
(* the step that reaches it.  Two sessions are threads of one process:     *)
(* their calls overlap in time.sleep and in requests.get.                  *)
(***************************************************************************)
EXTENDS Integers, Sequences, FiniteSets, TLC

VARIABLES
    data_cache,          \* st.session_state.data_cache: dict cache_key -> response body
    last_api_call_time,  \* st.session_state.last_api_call_time
    now,                 \* time.time() as the program last read it (lines 35, 53)
    last_request,        \* the most recent HTTP request to the market-chart endpoint
    nfetch,              \* per cache key: HTTP requests issued for it in this session
    call,                \* the most recent get_cached_or_fetch_data call and its outcome
    catalog,             \* the memo st.cache_data keeps for fetch_coin_list, and its last call
    ui,                  \* main's keys of st.session_state, the widgets, and the last run
    peer,                \* st.session_state of a second browser session of the same process
    roll,                \* the pass of rolling(window).mean() over the run's price column
    inflight             \* per session: where its call of the fetcher is waiting, if it is

vars == <<data_cache, last_api_call_time, now, last_request, nfetch, call,
          catalog, ui, peer, roll, inflight>>

\* the state of the fetch / cache / slice core
core == <<data_cache, last_api_call_time, now, last_request, nfetch, call>>

(***************************************************************************)
(* Program constants.                                                      *)
(***************************************************************************)
\* app.py:33  MIN_TIME_BETWEEN_CALLS = 2.5 seconds, in tenths of a second
MIN_TIME_BETWEEN_CALLS == 25
\* app.py:67
MAX_HOURLY_DAYS == 90
\* app.py:68
MAX_DAILY_DAYS == 365
\* app.py:95  "Approx 24 data points per day"
POINTS_PER_DAY == 24
\* app.py:10  ttl=86400 seconds, in tenths of a second
COIN_LIST_TTL == 864000
\* app.py:234  rolling(window=10)
SMA_FAST == 10
\* app.py:235  rolling(window=30)
SMA_SLOW == 30

(***************************************************************************)
(* Bounds of the model.                                                    *)
(***************************************************************************)
\* time.time() when the session starts (the real value is the Unix time,
\* far more than MIN_TIME_BETWEEN_CALLS after the initial clock value 0)
StartTime == 30
\* HTTP requests followed in one session (the program sets no limit)
MaxRequests == 2
\* requests to the catalog endpoint followed
MaxCatalogRequests == 3
\* requests to the catalog endpoint followed in the runs of main
MaxListings == 1
\* length of a short upstream series
ShortLen == 130
\* length of an upstream series of less than a day of hourly points
TinyLen == 10
\* the dashboard's inputs: coin ids from the catalog, the currency selectbox
\* (app.py:162) and the days slider (app.py:159), by representative values
Coins == {"bitcoin", "ethereum"}
Currencies == {"usd", "eur"}
\* the (coin, currency) selections a session moves between
Selections == {<<"bitcoin", "usd">>, <<"ethereum", "usd">>}
DaysInputs == {5, 30, MAX_HOURLY_DAYS, MAX_HOURLY_DAYS + 1}

\* time between the last clock reading and a call of the fetcher, HTTP
\* latencies, and by how much time.sleep may overshoot
Gaps == {0, 10, 25}
Latencies == {5}
OverSleeps == {0, 5}

(***************************************************************************)
(* Python values.                                                          *)
(***************************************************************************)
None == [type |-> "NoneType"]
Dict(items) == [type |-> "dict", items |-> items]
Raised(exc) == [type |-> "exception", exc |-> exc]
\* no value at all: the script run was stopped inside the call
NoReturn == [type |-> "stopped"]

\* bool(x) for None and for dicts: an empty dict is falsy
Truthy(x) == x.type = "dict" /\ DOMAIN x.items # {}

Max(a, b) == IF a >= b THEN a ELSE b
Min(a, b) == IF a <= b THEN a ELSE b

\* PySliceLast taking the leading points, lst[:n]
PySliceFirst(lst, n) == SubSeq(lst, 1, Min(Max(n, 0), Len(lst)))

\* lst[-n:] for a list lst and an integer n
PySliceLast(lst, n) ==
    LET len == Len(lst)
        start == IF -n < 0 THEN Max(len - n, 0) ELSE Min(-n, len)
    IN SubSeq(lst, start + 1, len)

(***************************************************************************)
(* The upstream market-chart endpoint (app.py:46-50), a black box.         *)
(* A series is a list of [timestamp, value] points, oldest first; the      *)
(* timestamps are in hours, one apart for an hourly series (days <= 90)    *)
(* and 24 apart for a daily one.                                           *)
(***************************************************************************)
Quote(coin, cur) ==
    (IF coin = "bitcoin" THEN 1000 ELSE 2000) + (IF cur = "usd" THEN 0 ELSE 500)

Series(n, step, base) == [i \in 1..n |-> <<i * step, base + i>>]

\* the lengths of the series the endpoint answers with, by requested width
SeriesLens(days) ==
    IF days <= 90 THEN {0, ShortLen} ELSE {0, ShortLen, MAX_DAILY_DAYS}

\* the JSON objects the endpoint may answer a 2xx response with
Bodies(coin, cur, days) ==
    LET step == IF days <= 90 THEN 1 ELSE 24
        p(n) == Series(n, step, Quote(coin, cur))
        v(n) == Series(n, step, 10 * Quote(coin, cur))
    IN    {Dict(<< >>)}                                      \* {}
     \cup {Dict([prices |-> p(ShortLen)])}                   \* no 'total_volumes'
     \cup {Dict([prices |-> p(n), total_volumes |-> v(n)]) : n \in SeriesLens(days)}

\* what one requests.get + raise_for_status + json() can meet
Responses(coin, cur, days) ==
         {[kind |-> k, body |-> None] : k \in {"http_error", "network_error", "bad_json"}}
    \cup {[kind |-> "ok", body |-> b] : b \in Bodies(coin, cur, days)}

\* the same, tabulated for the requests the program makes
ResponsesOf ==
    [c \in Coins, v \in Currencies, w \in {MAX_HOURLY_DAYS, MAX_DAILY_DAYS} |->
        Responses(c, v, w)]

(***************************************************************************)
(* _api_call_with_rate_limit(coin_id, vs_currency, days)   app.py:28-59    *)
(* last: st.session_state.last_api_call_time; t: the time of the call;     *)
(* resp: the upstream's answer; lat: how long the HTTP exchange takes;     *)
(* over: by how much time.sleep overshoots; json_caught: whether the       *)
(* installed requests raises its own JSONDecodeError (a RequestException,  *)
(* caught at line 56) or a plain ValueError (not caught) on a bad body.    *)
(***************************************************************************)
NoRequest == [kind |-> "none"]

\* MustWait with the cooldown test left out
MustWaitNever(t, last) == FALSE

\* app.py:39-41: the call has to wait out the rest of the cooldown
MustWait(t, last) == t - last < MIN_TIME_BETWEEN_CALLS

\* NewLastCallTime updating the clock whatever the exchange gave
NewLastCallTimeAlways(last, end, kind) == end

\* app.py:47-59: last_api_call_time after the exchange, which ended at `end`;
\* line 53 runs only when get, raise_for_status and json all returned
NewLastCallTime(last, end, kind) == IF kind = "ok" THEN end ELSE last

\* app.py:47-59: the value returned, or the exception that escapes
ApiReturn(resp, json_caught) ==
    IF resp.kind = "ok" THEN resp.body
    ELSE IF resp.kind = "bad_json" /\ ~json_caught THEN Raised("ValueError")
    ELSE None

ApiCall(last, t, coin, cur, days, resp, lat, over, json_caught) ==
    LET sleep_duration == MIN_TIME_BETWEEN_CALLS - (t - last)
        start == IF MustWait(t, last) THEN t + sleep_duration + over ELSE t
        end == start + lat
        ret == ApiReturn(resp, json_caught)
    IN [ ret     |-> ret,
         last    |-> NewLastCallTime(last, end, resp.kind),
         now     |-> end,
         request |-> [kind |-> resp.kind, coin |-> coin, cur |-> cur, days |-> days,
                      start |-> start, end |-> end, body |-> resp.body],
         msgs    |-> (IF MustWait(t, last) THEN <<"rate_limit_wait">> ELSE << >>)
                     \o (IF ret = None THEN <<"fetch_error", "rate_limit_warning">>
                         ELSE << >>) ]

(***************************************************************************)
(* get_cached_or_fetch_data(coin_id, vs_currency, days_requested)          *)
(* app.py:62-127                                                           *)
(***************************************************************************)
\* IsHourly sending every request to the hourly bucket
IsHourlyAlways(days) == TRUE

\* IsHourly with the boundary day on the daily side
IsHourlyStrict(days) == days < MAX_HOURLY_DAYS

\* app.py:76
IsHourly(days) == days <= MAX_HOURLY_DAYS

\* CacheKey leaving the bucket out of the name
CacheKeyOneBucket(coin, cur, days) ==
    coin \o "_" \o cur \o "_daily_" \o ToString(MAX_DAILY_DAYS)

\* app.py:77, 106: the f-strings that name the cache entry
CacheKey(coin, cur, days) ==
    IF IsHourly(days)
    THEN coin \o "_" \o cur \o "_hourly_" \o ToString(MAX_HOURLY_DAYS)
    ELSE coin \o "_" \o cur \o "_daily_" \o ToString(MAX_DAILY_DAYS)

\* app.py:80, 109: the days parameter of the request
FetchWidth(days) == IF IsHourly(days) THEN MAX_HOURLY_DAYS ELSE MAX_DAILY_DAYS

\* SliceCount without the 24 points per day of the hourly bucket
SliceCountDays(days) == days

\* app.py:95-96, 123-124: how many trailing points are kept
SliceCount(days) == IF IsHourly(days) THEN days * POINTS_PER_DAY ELSE days

\* CacheMiss never finding the entry
CacheMissAlways(cache, key) == TRUE

\* app.py:78, 107: the entry has to be fetched
CacheMiss(cache, key) == key \notin DOMAIN cache

\* StoreFetched forgetting to store
StoreNever(cache, key, fetched_data) == cache

\* StoreFetched storing whatever the fetch returned, a failure included
StoreAlways(cache, key, fetched_data) ==
    [k \in DOMAIN cache \cup {key} |-> IF k = key THEN fetched_data ELSE cache[k]]

\* StoreFetched starting a fresh dict for the fetched entry
StoreAlone(cache, key, fetched_data) ==
    IF Truthy(fetched_data) THEN [k \in {key} |-> fetched_data] ELSE cache

\* app.py:81-82, 110-111: the cache after the fetch returned fetched_data
StoreFetched(cache, key, fetched_data) ==
    IF Truthy(fetched_data)
    THEN [k \in DOMAIN cache \cup {key} |-> IF k = key THEN fetched_data ELSE cache[k]]
    ELSE cache

\* body holds both series
HasBothSeries(body) ==
    body.type = "dict" /\ {"prices", "total_volumes"} \subseteq DOMAIN body.items

\* app.py:90, 119: data_cache.get(cache_key)
CacheGet(cache, key) == IF key \in DOMAIN cache THEN cache[key] ELSE None

\* app.py:94-97, 122-125: the dict built from the cached entry; a missing
\* key raises KeyError, 'prices' being read first
SliceData(full_data, days) ==
    IF "prices" \notin DOMAIN full_data.items THEN Raised("KeyError")
    ELSE IF "total_volumes" \notin DOMAIN full_data.items THEN Raised("KeyError")
    ELSE Dict([prices |-> PySliceLast(full_data.items.prices, SliceCount(days)),
               total_volumes |-> PySliceLast(full_data.items.total_volumes,
                                             SliceCount(days))])

\* app.py:74, 90-97, 119-127: final_data_to_process
FinalData(full_data, days) ==
    IF Truthy(full_data) THEN SliceData(full_data, days) ELSE None

\* PartialWarning without the test days_requested > 1
PartialWarningAnyDays(sliced, days) ==
    IF /\ IsHourly(days)
       /\ sliced.type = "dict"
       /\ Len(sliced.items.prices) < days * POINTS_PER_DAY
    THEN <<"partial_data">> ELSE << >>

\* app.py:100-103: the "fewer points" warning of the hourly branch
PartialWarning(sliced, days) ==
    IF /\ IsHourly(days)
       /\ sliced.type = "dict"
       /\ Len(sliced.items.prices) < days * POINTS_PER_DAY
       /\ days > 1
    THEN <<"partial_data">> ELSE << >>

Cadence(days) == IF IsHourly(days) THEN "hourly" ELSE "daily"

\* ServeCached restarting the cooldown when it serves from the cache
ServeCachedTouchingClock(cache, last, t, key, days) ==
    [ cache |-> cache, last |-> t, now |-> t,
      ret |-> FinalData(CacheGet(cache, key), days),
      key |-> key, request |-> NoRequest,
      msgs |-> <<"using_cached_" \o Cadence(days)>> ]

\* app.py:86-97, 115-127: the entry is in the cache
ServeCached(cache, last, t, key, days) ==
    LET final_data_to_process == FinalData(CacheGet(cache, key), days)
    IN [ cache |-> cache, last |-> last, now |-> t, ret |-> final_data_to_process,
         key |-> key, request |-> NoRequest,
         msgs |-> <<"using_cached_" \o Cadence(days)>>
                  \o PartialWarning(final_data_to_process, days) ]

\* app.py:78-85, 90-97 and 107-114, 119-127: the entry is fetched first
FetchAndServe(cache, key, days, api) ==
    LET fetched_data == api.ret
        stored == StoreFetched(cache, key, fetched_data)
        final_data_to_process == FinalData(CacheGet(stored, key), days)
        fetching == <<"fetching_" \o Cadence(days)>> \o api.msgs
    IN IF fetched_data.type = "exception"
       THEN \* the exception of line 50 passes through lines 80, 109
            [ cache |-> cache, last |-> api.last, now |-> api.now, ret |-> fetched_data,
              key |-> key, request |-> api.request, msgs |-> fetching ]
       ELSE IF ~Truthy(fetched_data)
       THEN \* lines 84-85, 113-114: return None
            [ cache |-> stored, last |-> api.last, now |-> api.now, ret |-> None,
              key |-> key, request |-> api.request, msgs |-> fetching ]
       ELSE \* lines 81-83, 110-112, then the slice
            [ cache |-> stored, last |-> api.last, now |-> api.now,
              ret |-> final_data_to_process, key |-> key, request |-> api.request,
              msgs |-> fetching \o <<"fetch_success">>
                       \o PartialWarning(final_data_to_process, days) ]

GetData(cache, last, t, coin, cur, days, resp, lat, over, json_caught) ==
    LET cache_key == CacheKey(coin, cur, days)
    IN IF CacheMiss(cache, cache_key)
       THEN FetchAndServe(cache, cache_key, days,
                          ApiCall(last, t, coin, cur, FetchWidth(days), resp, lat, over,
                                  json_caught))
       ELSE ServeCached(cache, last, t, cache_key, days)

(***************************************************************************)
(* A script run that is stopped.  Every st.* call is a point where         *)
(* Streamlit can end the run of the script (the session asked for a rerun  *)
(* or went away): the call of get_cached_or_fetch_data then returns        *)
(* nothing, and what it wrote to st.session_state before that point stays. *)
(***************************************************************************)
\* the messages of lines 79, 108 and 43: shown before the request is sent
BeforeRequest == {"fetching_hourly", "fetching_daily", "rate_limit_wait"}

\* the call whose uninterrupted outcome is r, stopped in the st.* call of its
\* k-th message; cache and last are the state the call started from, seen
\* the clock reading before the call and t the reading of line 35, which
\* comes after lines 79, 108 and before line 43.
\* Lines 57-58 follow a failed request, which wrote nothing; lines 83, 112
\* follow the store of lines 82, 111 and the clock update of line 53; lines
\* 87, 116 and 103 belong to calls or parts of calls that write nothing.
StoppedAt(r, k, cache, last, seen, t) ==
    IF r.msgs[k] \in BeforeRequest
    THEN [ cache |-> cache, last |-> last,
           now |-> IF r.msgs[k] = "rate_limit_wait" THEN t ELSE seen, ret |-> NoReturn,
           key |-> r.key, request |-> NoRequest, msgs |-> SubSeq(r.msgs, 1, k) ]
    ELSE [ cache |-> r.cache, last |-> r.last, now |-> r.now, ret |-> NoReturn,
           key |-> r.key, request |-> r.request, msgs |-> SubSeq(r.msgs, 1, k) ]

\* the messages of get_cached_or_fetch_data and _api_call_with_rate_limit,
\* one per st.* call
StopPoints ==
    {"fetching_hourly", "fetching_daily", "rate_limit_wait", "fetch_error",
     "rate_limit_warning", "fetch_success", "using_cached_hourly",
     "using_cached_daily", "partial_data"}

\* the ways the call with uninterrupted outcome r can end when the run may be
\* stopped in the st.* calls of the messages in stops
RunOutcomes(r, cache, last, seen, t, stops) ==
    {r} \cup {StoppedAt(r, k, cache, last, seen, t) :
                k \in {i \in 1..Len(r.msgs) : r.msgs[i] \in stops}}

(***************************************************************************)
(* fetch_coin_list()   app.py:10-25, under @st.cache_data(ttl=86400):      *)
(* Streamlit keeps the value the function returned, whatever it is, and    *)
(* hands it out without running the function until the ttl has passed.     *)
(***************************************************************************)
\* the catalog the /coins/list endpoint answers with
CoinCatalog == <<[id |-> "bitcoin", name |-> "Bitcoin"],
                 [id |-> "ethereum", name |-> "Ethereum"]>>

\* what the request of line 19 can meet: the list, an error status, no
\* connection, or a 2xx body that is not JSON
CatalogResponses == {"ok", "http_error", "network_error", "bad_json"}

NoMemo == [cached |-> FALSE, value |-> << >>, stored |-> 0]

\* app.py:10: the memo holds a value younger than the ttl
MemoFresh(memo, t) == memo.cached /\ t - memo.stored < COIN_LIST_TTL

\* app.py:18-25: the function body; the list, or [] after st.error
CoinListBody(resp) == IF resp = "ok" THEN CoinCatalog ELSE << >>

\* one call fetch_coin_list() at time t
FetchCoinList(memo, t, resp) ==
    IF MemoFresh(memo, t)
    THEN [memo |-> memo, ret |-> memo.value, requested |-> FALSE, resp |-> "none",
          at |-> t]
    ELSE [memo |-> [cached |-> TRUE, value |-> CoinListBody(resp), stored |-> t],
          ret |-> CoinListBody(resp), requested |-> TRUE, resp |-> resp, at |-> t]

NoCatalogCall == [requested |-> FALSE, resp |-> "none", ret |-> << >>]

CatalogInit == [memo |-> NoMemo, call |-> NoCatalogCall, nreq |-> 0, last_ok |-> -1]

\* the catalog state after the call r; last_ok is the time of the latest
\* request that succeeded
CatalogAfter(cat, r) ==
    [memo |-> r.memo,
     call |-> [requested |-> r.requested, resp |-> r.resp, ret |-> r.ret],
     nreq |-> cat.nreq + (IF r.requested THEN 1 ELSE 0),
     last_ok |-> IF r.resp = "ok" THEN r.at ELSE cat.last_ok]

\* the catalog state after the call r was stopped in the st.error of line
\* 24: the request was made, the function did not return, nothing is kept
CatalogStopped(cat, r) ==
    [cat EXCEPT !.call = [requested |-> TRUE, resp |-> r.resp, ret |-> NoReturn],
                !.nreq = @ + 1]

\* app.py:21: response.json() raises on the body that is not JSON, with a
\* requests whose error is a plain ValueError: line 23 does not catch it,
\* the exception leaves fetch_coin_list and nothing is kept
CatalogRaised(cat, r) ==
    [cat EXCEPT !.call = [requested |-> TRUE, resp |-> r.resp,
                          ret |-> Raised("ValueError")],
                !.nreq = @ + 1]

\* the ways the call r can end: it returns; it is stopped in st.error; the
\* error of response.json() is not caught
CatalogOutcomes(cat, r) ==
    {CatalogAfter(cat, r)}
        \cup (IF r.requested /\ r.resp # "ok" THEN {CatalogStopped(cat, r)} ELSE {})
        \cup (IF r.requested /\ r.resp = "bad_json" THEN {CatalogRaised(cat, r)}
              ELSE {})

(***************************************************************************)
(* main()   app.py:130-451, one run of the script.                         *)
(* None stands as "None" in the string-valued keys of st.session_state and *)
(* as 0 in last_processed_days_input and current_days.                     *)
(***************************************************************************)
\* app.py:149-155: the ids the coin selectbox can yield; with an empty list
\* the selectbox yields None and line 155 falls back to "bitcoin"
SelectableIds(coins_list) ==
    IF coins_list = << >> THEN {"bitcoin"}
    ELSE {coins_list[i].id : i \in 1..Len(coins_list)}

\* the values the days slider is moved between (app.py:159; 90 is its default)
\* while the selectboxes move within Selections
MainDays == {5, MAX_HOURLY_DAYS}

\* the values the slider is moved between, across the bucket boundary, while
\* the selectboxes stay on their defaults (app.py:147-162)
SliderSelections == {<<"bitcoin", "usd">>}
SliderDays == {5, MAX_HOURLY_DAYS, MAX_HOURLY_DAYS + 1}

\* a run: first tells that the run found initial_load_done false or absent
\* (line 180: it is the automatic initial load), changed the widgets
\* ("coin", "cur", "days") whose value differs from the run before
NoRun == [branch |-> "none", clicked |-> FALSE, outcome |-> "none", data |-> None,
          requested |-> FALSE, first |-> FALSE, changed |-> {}]

\* app.py:455-470 and the widgets' defaults (lines 147-162)
UiInit ==
    [has_flag |-> FALSE, initial_load_done |-> FALSE,
     current_coin_id |-> "None", current_vs_currency |-> "None", current_days |-> 0,
     last_full_range_data |-> None, last_processed_days_input |-> 0,
     selected_coin_id |-> "bitcoin", vs_currency |-> "usd", days_input |-> 90,
     run |-> NoRun]

\* what the widgets hold when a run starts: the values of the run before
\* (the defaults in the first run), or, once a run has come to the widgets
\* (shown), one of them changed; the button is on the page, and can have
\* been clicked, once a run has passed line 177, which is when
\* initial_load_done is set.  The selectboxes stay within sels, the slider
\* within days.
MainInputs(u, shown, ids, sels, days) ==
    LET same == [coin |-> u.selected_coin_id, cur |-> u.vs_currency,
                 days |-> u.days_input, click |-> FALSE,
                 first |-> ~u.initial_load_done, changed |-> {}]
    IN {same}
       \cup (IF u.initial_load_done THEN {[same EXCEPT !.click = TRUE]} ELSE {})
       \cup (IF ~shown THEN {}
             ELSE {[same EXCEPT !.coin = c, !.changed = {"coin"}] :
                      c \in {i \in ids \ {same.coin} : <<i, same.cur>> \in sels}}
                  \cup {[same EXCEPT !.cur = v, !.changed = {"cur"}] :
                           v \in {w \in Currencies \ {same.cur} :
                                      <<same.coin, w>> \in sels}}
                  \cup {[same EXCEPT !.days = d, !.changed = {"days"}] :
                           d \in days \ {same.days}})

\* Prepared as if lines 168-173 ran in every run, flag or not
PreparedEveryRun(u, in) ==
    [u EXCEPT !.has_flag = TRUE, !.current_coin_id = in.coin,
              !.current_vs_currency = in.cur, !.current_days = in.days,
              !.initial_load_done = FALSE]

\* app.py:168-173
Prepared(u, in) ==
    IF u.has_flag THEN u
    ELSE [u EXCEPT !.has_flag = TRUE, !.current_coin_id = in.coin,
                   !.current_vs_currency = in.cur, !.current_days = in.days,
                   !.initial_load_done = FALSE]

\* Branch slicing again on any new days value, previous data or not
BranchRetrying(u, in) ==
    LET fetch_button_clicked == in.click \/ ~u.initial_load_done
        data_params_changed == \/ in.coin # u.current_coin_id
                               \/ in.cur # u.current_vs_currency
    IN IF data_params_changed \/ fetch_button_clicked THEN "fetch"
       ELSE IF in.days # u.last_processed_days_input THEN "reslice"
       ELSE "reuse"

\* app.py:177-190, 200-204: which way the run gets its data
Branch(u, in) ==
    LET fetch_button_clicked == in.click \/ ~u.initial_load_done
        data_params_changed == \/ in.coin # u.current_coin_id
                               \/ in.cur # u.current_vs_currency
    IN IF data_params_changed \/ fetch_button_clicked THEN "fetch"
       ELSE IF Truthy(u.last_full_range_data)
               /\ in.days # u.last_processed_days_input THEN "reslice"
       ELSE "reuse"

\* app.py:210: the guard of the processing branch
CanProcess(x) ==
    /\ Truthy(x)
    /\ "prices" \in DOMAIN x.items
    /\ "total_volumes" \in DOMAIN x.items

\* app.py:209-211, 449-451: what the run does with btc_data_full_range
RunRecord(branch, in, x, requested) ==
    [branch |-> branch, clicked |-> in.click,
     outcome |-> IF x.type = "exception" THEN "exception"
                 ELSE IF x = NoReturn THEN "stopped"
                 ELSE IF CanProcess(x) THEN "processed" ELSE "failure",
     data |-> x, requested |-> requested, first |-> in.first, changed |-> in.changed]

\* the call of line 197 or 206 did not return: an exception escaped it, or
\* the run was stopped inside it
RunEnded(x) == x.type = "exception" \/ x = NoReturn

\* app.py:191-199: the session state after the fetch branch; a run that ends
\* in line 197 never reaches lines 198-199
AfterFetch(u, in, x, requested) ==
    LET u1 == [u EXCEPT !.current_coin_id = in.coin, !.current_vs_currency = in.cur,
                        !.run = RunRecord("fetch", in, x, requested)]
    IN IF RunEnded(x) THEN u1
       ELSE [u1 EXCEPT !.last_full_range_data = x,
                       !.last_processed_days_input = in.days]

\* app.py:204-207: the slice is taken again; last_full_range_data stays
AfterReslice(u, in, x, requested) ==
    LET u1 == [u EXCEPT !.run = RunRecord("reslice", in, x, requested)]
    IN IF RunEnded(x) THEN u1
       ELSE [u1 EXCEPT !.last_processed_days_input = in.days]

\* a run stopped in an st.* call before it reaches line 197 or 206: in a
\* widget of lines 131-165 (u is the session state as the run found it), in
\* the button of line 177 (u is the state after lines 168-173) or in the
\* st.info of line 205; the widgets' values are the session's all the same
StoppedEarly(u, in) ==
    [u EXCEPT !.selected_coin_id = in.coin, !.vs_currency = in.cur,
              !.days_input = in.days, !.run = RunRecord("none", in, NoReturn, FALSE)]

\* app.py:139: the run ended by the exception x that left fetch_coin_list
RaisedEarly(u, in, x) ==
    [u EXCEPT !.selected_coin_id = in.coin, !.vs_currency = in.cur,
              !.days_input = in.days, !.run = RunRecord("none", in, x, FALSE)]

\* app.py:211: the run stopped in st.success, after the writes of lines
\* 198-199 or 207
StoppedInSuccess(u) == [u EXCEPT !.run.outcome = "stopped"]

\* app.py:202: the run works on last_full_range_data as it is
AfterReuse(u, in) ==
    [u EXCEPT !.run = RunRecord("reuse", in, u.last_full_range_data, FALSE)]

(***************************************************************************)
(* The moving averages   app.py:216-235.                                   *)
(* rolling(window=k).mean() walks the price column once, keeping the sum   *)
(* and the number of the observations in the window; an entry is sum/nobs  *)
(* once nobs has reached min_periods, and NaN before.  A mean is kept as   *)
(* the pair (sum, n).                                                      *)
(***************************************************************************)
Windows == {SMA_FAST, SMA_SLOW}

NaN == [type |-> "nan"]
Mean(sum, n) == [type |-> "mean", sum |-> sum, n |-> n]

\* app.py:216-228: the price column of df_data, the inner join of the two
\* series on their timestamps, in the order of the price series
PriceColumn(x) ==
    LET v == x.items.total_volumes
        joined == SelectSeq(x.items.prices,
                            LAMBDA pt : \E j \in 1..Len(v) : v[j][1] = pt[1])
    IN [i \in 1..Len(joined) |-> joined[i][2]]

\* MinPeriods as if one observation were enough
MinPeriodsOne(window) == 1

\* app.py:234-235: rolling(window=k) without min_periods asks for k
\* observations
MinPeriods(window) == window

\* the window's sum and count after the value at index i (from 1) came in
\* and the value that left the window, if any, went out
RollAcc(acc, prices, i, window) ==
    LET added == [sum |-> acc.sum + prices[i], nobs |-> acc.nobs + 1]
    IN IF i > window
       THEN [sum |-> added.sum - prices[i - window], nobs |-> added.nobs - 1]
       ELSE added

\* the entry written for that index
RollEntry(acc, window) ==
    IF acc.nobs >= MinPeriods(window) /\ acc.nobs > 0
    THEN Mean(acc.sum, acc.nobs) ELSE NaN

\* the pass before its first step
RollStart(prices) ==
    [prices |-> prices, i |-> 0,
     acc |-> [k \in Windows |-> [sum |-> 0, nobs |-> 0]],
     out |-> [k \in Windows |-> << >>]]

\* one step of the pass, over both windows
RollStep(r) ==
    LET i == r.i + 1
        acc == [k \in Windows |-> RollAcc(r.acc[k], r.prices, i, k)]
    IN [prices |-> r.prices, i |-> i, acc |-> acc,
        out |-> [k \in Windows |-> Append(r.out[k], RollEntry(acc[k], k))]]

(***************************************************************************)
(* The session.                                                            *)
(***************************************************************************)
AllKeys == {CacheKey(c, v, d) : c \in Coins, v \in Currencies, d \in DaysInputs}

RECURSIVE SumOver(_, _)
SumOver(f, S) ==
    IF S = {} THEN 0
    ELSE LET k == CHOOSE x \in S : TRUE IN f[k] + SumOver(f, S \ {k})

TotalRequests == SumOver(nfetch, AllKeys)

NoCall == [coin |-> "", cur |-> "", days |-> 0, key |-> "", hit |-> FALSE,
           request |-> NoRequest, ret |-> None, msgs |-> << >>]

\* the session state of a second session before its first run (app.py:
\* 457-460); nreq counts its HTTP requests, called tells that the most
\* recent call was this session's
PeerInit == [data_cache |-> << >>, last_api_call_time |-> 0, nreq |-> 0,
             called |-> FALSE]

\* no rolling pass under way
RollIdle == RollStart(<< >>)

\* the two sessions: the one of data_cache and last_api_call_time, and peer
Sessions == {"own", "peer"}

\* the session's script is not inside _api_call_with_rate_limit
Idle == [pc |-> "idle"]

\* app.py:455-470: the session state as __main__ leaves it before main()
Init ==
    /\ data_cache = << >>
    /\ last_api_call_time = 0
    /\ now = StartTime
    /\ last_request = NoRequest
    /\ nfetch = [k \in AllKeys |-> 0]
    /\ call = NoCall
    /\ catalog = CatalogInit
    /\ ui = UiInit
    /\ peer = PeerInit
    /\ roll = RollIdle
    /\ inflight = [s \in Sessions |-> Idle]

\* the session state after a call get_cached_or_fetch_data(coin, cur, days)
\* that ended with outcome r
Apply(coin, cur, days, r) ==
    /\ data_cache' = r.cache
    /\ last_api_call_time' = r.last
    /\ now' = r.now
    /\ last_request' = IF r.request = NoRequest THEN last_request
                       ELSE [kind |-> r.request.kind, start |-> r.request.start,
                             end |-> r.request.end]
    /\ nfetch' = IF r.request = NoRequest THEN nfetch
                 ELSE [nfetch EXCEPT ![r.key] = @ + 1]
    /\ call' = [coin |-> coin, cur |-> cur, days |-> days, key |-> r.key,
                hit |-> ~CacheMiss(data_cache, r.key), request |-> r.request,
                ret |-> r.ret, msgs |-> r.msgs]

\* PeerClock reading one clock for the whole process
PeerClockOfProcess(own, other) == Max(own, other)

\* app.py:36-39: the clock a call reads is the last_api_call_time of its own
\* session's st.session_state; `other` is the other session's
PeerClock(own, other) == own

(***************************************************************************)
(* A call of get_cached_or_fetch_data that has to fetch blocks twice: in   *)
(* time.sleep (line 44) and in requests.get (line 48); fetch_coin_list     *)
(* blocks in requests.get (line 19).  The scripts of other sessions run on *)
(* meanwhile, each in a thread of its own, on its own st.session_state,    *)
(* under the one wall clock.  inflight[s] tells where session s is         *)
(* blocked: "sleeping" until start, "requesting" from start until end, or  *)
(* "listing" until end; its field run holds what the run of main that made *)
(* the call goes on with.                                                  *)
(***************************************************************************)
\* a call made outside a run of main
NoRunContext == [branch |-> "none"]

SessionCache(s) == IF s = "peer" THEN peer.data_cache ELSE data_cache

\* st.session_state.last_api_call_time of session s
SessionClock(s) == IF s = "peer" THEN peer.last_api_call_time ELSE last_api_call_time

\* app.py:39: the value a call in session s reads
ClockRead(s) ==
    IF s = "peer" THEN PeerClock(peer.last_api_call_time, last_api_call_time)
    ELSE last_api_call_time

\* HTTP requests session s has completed
SessionRequests(s) == IF s = "peer" THEN peer.nreq ELSE TotalRequests

\* when the blocked call f goes on: time.sleep returns at start, requests.get
\* at end
Due(f) == IF f.pc = "sleeping" THEN f.start ELSE f.end

\* a step of session s can be the next thing to happen, at time t: the clock
\* does not run back, and no blocked call of another session is due before t
MayHappenAt(s, t) ==
    /\ t >= now
    /\ \A o \in Sessions \ {s} : inflight[o].pc # "idle" => t <= Due(inflight[o])

\* the call of session s ends with outcome r
SessionFinish(s, coin, cur, days, r) ==
    IF s = "own"
    THEN /\ Apply(coin, cur, days, r)
         /\ peer' = [peer EXCEPT !.called = FALSE]
    ELSE /\ peer' = [data_cache |-> r.cache,
                     last_api_call_time |->
                         IF r.request = NoRequest THEN peer.last_api_call_time
                         ELSE NewLastCallTime(peer.last_api_call_time,
                                              r.request.end, r.request.kind),
                     nreq |-> peer.nreq + (IF r.request = NoRequest THEN 0 ELSE 1),
                     called |-> TRUE]
         /\ now' = r.now
         /\ last_request' = IF r.request = NoRequest THEN last_request
                            ELSE [kind |-> r.request.kind, start |-> r.request.start,
                                  end |-> r.request.end]
         /\ call' = [coin |-> coin, cur |-> cur, days |-> days, key |-> r.key,
                     hit |-> ~CacheMiss(peer.data_cache, r.key),
                     request |-> r.request, ret |-> r.ret, msgs |-> r.msgs]
         /\ UNCHANGED <<data_cache, last_api_call_time, nfetch>>

\* app.py:62-79, 86-127 and 28-44 in session s: the call is served from the
\* cache, or it is stopped before its request, or it comes to block in
\* time.sleep or, with nothing to wait for, in requests.get
SessionEnter(s, coin, cur, days, gaps, overs, stops, ctx) ==
    LET cache == SessionCache(s)
        last == ClockRead(s)
        blank == [kind |-> "ok", body |-> None]
    IN IF ~CacheMiss(cache, CacheKey(coin, cur, days))
       THEN /\ \E r \in RunOutcomes(GetData(cache, last, now, coin, cur, days, blank,
                                            0, 0, TRUE),
                                    cache, last, now, now, stops) :
                   SessionFinish(s, coin, cur, days, r)
            /\ inflight' = [inflight EXCEPT ![s] = Idle]
       ELSE /\ SessionRequests(s) < MaxRequests
            /\ \E gap \in gaps, lat \in Latencies :
                  \E over \in IF MustWait(now + gap, last) THEN overs ELSE {0} :
                     LET t == now + gap
                         r0 == GetData(cache, last, t, coin, cur, days, blank, lat,
                                       over, TRUE)
                     IN /\ MayHappenAt(s, t)
                        /\ \/ /\ \E r \in RunOutcomes(r0, cache, last, now, t,
                                                     stops \cap BeforeRequest) \ {r0} :
                                    SessionFinish(s, coin, cur, days, r)
                              /\ inflight' = [inflight EXCEPT ![s] = Idle]
                           \/ /\ inflight' =
                                    [inflight EXCEPT ![s] =
                                        [pc |-> IF MustWait(t, last) THEN "sleeping"
                                                ELSE "requesting",
                                         coin |-> coin, cur |-> cur, days |-> days,
                                         t |-> t, last |-> last, lat |-> lat,
                                         over |-> over, waited |-> MustWait(t, last),
                                         start |-> r0.request.start,
                                         end |-> r0.request.end, run |-> ctx]]
                              /\ now' = t
                              /\ UNCHANGED <<data_cache, last_api_call_time, last_request,
                                             nfetch, call, peer>>

\* app.py:44-48 in session s: time.sleep returns and requests.get is entered
SessionWake(s) ==
    /\ inflight[s].pc = "sleeping"
    /\ MayHappenAt(s, inflight[s].start)
    /\ inflight' = [inflight EXCEPT ![s].pc = "requesting"]
    /\ now' = inflight[s].start
    /\ UNCHANGED <<data_cache, last_api_call_time, last_request, nfetch, call, peer>>

\* app.py:48-59 and 81-127 in session s: requests.get returns or raises, with
\* the answer resp, and the call runs to its end
SessionReturn(s, resp, json_caught, stops) ==
    LET f == inflight[s]
        cache == SessionCache(s)
    IN /\ f.pc = "requesting"
       /\ MayHappenAt(s, f.end)
       /\ \E r \in RunOutcomes(GetData(cache, f.last, f.t, f.coin, f.cur, f.days,
                                       resp, f.lat, f.over, json_caught),
                               cache, f.last, f.t, f.t, stops \ BeforeRequest) :
             SessionFinish(s, f.coin, f.cur, f.days, r)
       /\ inflight' = [inflight EXCEPT ![s] = Idle]

\* whether response.json() raising is caught at line 56
JsonCaught(resp) == IF resp.kind = "bad_json" THEN BOOLEAN ELSE {TRUE}

\* a session in which every call of the fetcher directly follows the last
\* clock reading: any selection, days and upstream answer
Call ==
    \E sel \in Selections, days \in DaysInputs :
        /\ inflight["own"].pc = "idle"
        /\ SessionEnter("own", sel[1], sel[2], days, {0}, {0}, StopPoints,
                        NoRunContext)
        /\ UNCHANGED <<catalog, ui, roll>>

\* the session's time.sleep is over
Send ==
    /\ SessionWake("own")
    /\ UNCHANGED <<catalog, ui, roll>>

\* the session's requests.get is over
Receive ==
    /\ inflight["own"].pc = "requesting"
    /\ \E resp \in ResponsesOf[inflight["own"].coin, inflight["own"].cur,
                               FetchWidth(inflight["own"].days)] :
          \E json_caught \in JsonCaught(resp) :
             SessionReturn("own", resp, json_caught, StopPoints)
    /\ UNCHANGED <<catalog, ui, roll>>

Next == Call \/ Send \/ Receive

Spec == Init /\ [][Next]_vars

\* a session on one selection in which the calls of the fetcher come at any
\* distance from the last clock reading; the upstream fails, or answers with
\* an empty object or with both series
TimingDays == {5, MAX_HOURLY_DAYS + 1}

TimingResponses(coin, cur, days) ==
    {r \in ResponsesOf[coin, cur, FetchWidth(days)] :
        \/ r.kind # "ok"
        \/ DOMAIN r.body.items = {}
        \/ /\ DOMAIN r.body.items = {"prices", "total_volumes"}
           /\ Len(r.body.items.prices) = ShortLen}

CallTiming ==
    \E days \in TimingDays :
        /\ inflight["own"].pc = "idle"
        /\ SessionEnter("own", "bitcoin", "usd", days, Gaps, OverSleeps, StopPoints,
                        NoRunContext)
        /\ UNCHANGED <<catalog, ui, roll>>

ReceiveTiming ==
    /\ inflight["own"].pc = "requesting"
    /\ \E resp \in TimingResponses(inflight["own"].coin, inflight["own"].cur,
                                   inflight["own"].days) :
          \E json_caught \in JsonCaught(resp) :
             SessionReturn("own", resp, json_caught, StopPoints)
    /\ UNCHANGED <<catalog, ui, roll>>

NextTiming == CallTiming \/ Send \/ ReceiveTiming

SpecTiming == Init /\ [][NextTiming]_vars

\* a session on the hourly bucket, one day included, in which the upstream
\* fails or answers with both series, of no, few or ShortLen points
SliceDays == {1, 2, 5, 30, MAX_HOURLY_DAYS}

SliceResponses(coin, cur) ==
    LET p(n) == Series(n, 1, Quote(coin, cur))
        v(n) == Series(n, 1, 10 * Quote(coin, cur))
    IN    {[kind |-> "http_error", body |-> None]}
     \cup {[kind |-> "ok", body |-> Dict([prices |-> p(n), total_volumes |-> v(n)])] :
              n \in {0, TinyLen, ShortLen}}

CallSlice ==
    \E coin \in Coins, days \in SliceDays :
        /\ inflight["own"].pc = "idle"
        /\ SessionEnter("own", coin, "usd", days, {0}, {0}, StopPoints, NoRunContext)
        /\ UNCHANGED <<catalog, ui, roll>>

ReceiveSlice ==
    /\ inflight["own"].pc = "requesting"
    /\ \E resp \in SliceResponses(inflight["own"].coin, inflight["own"].cur) :
          SessionReturn("own", resp, TRUE, StopPoints)
    /\ UNCHANGED <<catalog, ui, roll>>

NextSlice == CallSlice \/ Send \/ ReceiveSlice

SpecSlice == Init /\ [][NextSlice]_vars

\* the price columns the pipeline is handed: what the slicer returns for the
\* days of SliceDays from the bodies of SliceResponses
PriceColumns ==
    {PriceColumn(FinalData(r.body, days)) :
        r \in {q \in SliceResponses("bitcoin", "usd") : q.kind = "ok"},
        days \in SliceDays}

InitSMA ==
    /\ data_cache = << >>
    /\ last_api_call_time = 0
    /\ now = StartTime
    /\ last_request = NoRequest
    /\ nfetch = [k \in AllKeys |-> 0]
    /\ call = NoCall
    /\ catalog = CatalogInit
    /\ ui = UiInit
    /\ peer = PeerInit
    /\ roll \in {RollStart(prices) : prices \in PriceColumns}
    /\ inflight = [s \in Sessions |-> Idle]

\* the rolling pass moves on by one price
RollNext ==
    /\ roll.i < Len(roll.prices)
    /\ roll' = RollStep(roll)
    /\ UNCHANGED <<data_cache, last_api_call_time, now, last_request, nfetch, call,
                   catalog, ui, peer, inflight>>

SpecSMA == InitSMA /\ [][RollNext]_vars

\* two sessions of one process on the same asset; the upstream fails or
\* answers with ShortLen points
SessionResponses(coin, cur, days) ==
    {r \in ResponsesOf[coin, cur, FetchWidth(days)] :
        \/ r.kind = "http_error"
        \/ /\ r.kind = "ok"
           /\ HasBothSeries(r.body)
           /\ Len(r.body.items.prices) = ShortLen}

\* every call directly follows the last clock reading of the process
SessionGaps == {0}

\* the days the two sessions ask for, one of each bucket
SessionDays == {5, MAX_HOURLY_DAYS + 1}

\* a session calls get_cached_or_fetch_data
SessionCall ==
    \E s \in Sessions, days \in SessionDays :
        /\ inflight[s].pc = "idle"
        /\ SessionEnter(s, "bitcoin", "usd", days, SessionGaps, {0}, StopPoints,
                        NoRunContext)
        /\ UNCHANGED <<catalog, ui, roll>>

\* a session's time.sleep is over
SessionSend ==
    \E s \in Sessions :
        /\ SessionWake(s)
        /\ UNCHANGED <<catalog, ui, roll>>

\* a session's requests.get is over
SessionReceive ==
    \E s \in Sessions :
        /\ inflight[s].pc = "requesting"
        /\ \E resp \in SessionResponses(inflight[s].coin, inflight[s].cur,
                                        inflight[s].days) :
              SessionReturn(s, resp, TRUE, StopPoints)
        /\ UNCHANGED <<catalog, ui, roll>>

NextSessions == SessionCall \/ SessionSend \/ SessionReceive

SpecSessions == Init /\ [][NextSessions]_vars

(***************************************************************************)
(* The runs of main().  A run goes from its start to the point where it    *)
(* blocks or ends; the run that blocked goes on when the call returns.     *)
(***************************************************************************)
\* the upstream of the runs that change the asset: it answers with a body
\* that is not JSON (caught at line 56, the call fails as it does on an
\* error status; not caught, the error ends the run), or with both series,
\* of TinyLen hourly points
MainResponses(coin, cur) ==
    {[kind |-> "bad_json", body |-> None],
     [kind |-> "ok",
      body |-> Dict([prices |-> Series(TinyLen, 1, Quote(coin, cur)),
                     total_volumes |-> Series(TinyLen, 1, 10 * Quote(coin, cur))])]}

\* the upstream of the runs that move the slider: it fails, or answers with
\* a body that is not JSON, or with both series, of any length, or with the
\* price series alone
SliderResponses(coin, cur, days) ==
    {r \in ResponsesOf[coin, cur, FetchWidth(days)] :
        \/ r.kind \in {"http_error", "bad_json"}
        \/ r.kind = "ok" /\ "prices" \in DOMAIN r.body.items}

RECURSIVE SumOfPrices(_, _, _)
\* prices[a] + ... + prices[b]
SumOfPrices(prices, a, b) ==
    IF a > b THEN 0 ELSE prices[a] + SumOfPrices(prices, a + 1, b)

\* the window's sum and count at index i (from 1)
WindowAcc(prices, i, window) ==
    [sum |-> SumOfPrices(prices, Max(1, i - window + 1), i), nobs |-> Min(i, window)]

\* app.py:234-235: the pass over the whole column
RollDone(prices) ==
    [prices |-> prices, i |-> Len(prices),
     acc |-> [k \in Windows |-> WindowAcc(prices, Len(prices), k)],
     out |-> [k \in Windows |->
                [i \in 1..Len(prices) |-> RollEntry(WindowAcc(prices, i, k), k)]]]

\* what get_cached_or_fetch_data can hand to a run that processes it
MainSlices ==
    {FinalData(r.body, d) :
        r \in {q \in UNION {SliderResponses(c, v, MAX_HOURLY_DAYS)
                              \cup SliderResponses(c, v, MAX_DAILY_DAYS)
                              \cup MainResponses(c, v) :
                                c \in Coins, v \in Currencies} :
                 q.kind = "ok" /\ HasBothSeries(q.body)},
        d \in SliderDays}

\* app.py:216-235 for each of them: the moving averages of its price column
MovingAverages ==
    [x \in MainSlices |-> RollDone(PriceColumn(x))] @@ << >>

\* what the run that blocks in a call of the fetcher goes on with
RunContext(branch, in) ==
    [branch |-> branch, click |-> in.click, first |-> in.first, changed |-> in.changed]

\* the widgets of the run that session state u and context ctx belong to
RunInputs(u, ctx) ==
    [coin |-> u.selected_coin_id, cur |-> u.vs_currency, days |-> u.days_input,
     click |-> ctx.click, first |-> ctx.first, changed |-> ctx.changed]

\* app.py:198-199, 207, 209-235: the run from the return of the call of line
\* 197 or 206 (or from line 202) to its end
RunFinish(branch, u, in, x, requested) ==
    LET after == CASE branch = "fetch" -> AfterFetch(u, in, x, requested)
                   [] branch = "reslice" -> AfterReslice(u, in, x, requested)
                   [] OTHER -> AfterReuse(u, in)
    IN \/ /\ ui' = after
          /\ roll' = IF CanProcess(x) THEN MovingAverages[x] ELSE RollIdle
       \/ /\ CanProcess(x)
          /\ ui' = StoppedInSuccess(after)
          /\ roll' = RollIdle

\* app.py:191-192: the session state while the call of line 197 is blocked
InFetch(u, in) ==
    [u EXCEPT !.current_coin_id = in.coin, !.current_vs_currency = in.cur]

\* app.py:141-235, the run `in` from the widgets on
RunMain(in, stops) ==
    LET u1 == Prepared(ui, in)
        branch == Branch(u1, in)
        u2 == [u1 EXCEPT !.initial_load_done = TRUE, !.selected_coin_id = in.coin,
                         !.vs_currency = in.cur, !.days_input = in.days]
    IN \/ /\ branch = "fetch"
          /\ SessionEnter("own", in.coin, in.cur, in.days, {0}, {0}, stops,
                          RunContext(branch, in))
          /\ IF inflight'["own"].pc = "idle"
             THEN RunFinish(branch, u2, in, call'.ret, call'.request # NoRequest)
             ELSE ui' = InFetch(u2, in) /\ roll' = RollIdle
       \/ /\ branch = "reslice"
          /\ SessionEnter("own", u1.current_coin_id, u1.current_vs_currency, in.days,
                          {0}, {0}, stops, RunContext(branch, in))
          /\ IF inflight'["own"].pc = "idle"
             THEN RunFinish(branch, u2, in, call'.ret, call'.request # NoRequest)
             ELSE ui' = u2 /\ roll' = RollIdle
       \/ /\ branch = "reuse"
          /\ RunFinish(branch, u2, in, u2.last_full_range_data, FALSE)
          /\ inflight' = [inflight EXCEPT !["own"] = Idle]
          /\ UNCHANGED <<core, peer>>
       \/ /\ \E u \in {ui, u1} : ui' = StoppedEarly(u, in)
          /\ inflight' = [inflight EXCEPT !["own"] = Idle]
          /\ roll' = RollIdle
          /\ UNCHANGED <<core, peer>>

\* the ids the coin selectbox of the run before offered (app.py:149)
ListedIds ==
    SelectableIds(IF catalog.memo.cached THEN catalog.memo.value ELSE << >>)

\* a run of the session has come to the widgets of lines 149-162: it had
\* fetch_coin_list return, which is when the memo is written
WidgetsShown == catalog.memo.cached

\* a run of main() starts: it is stopped before line 139, or the catalog is
\* in the memo and the run goes on, or it blocks in the request of line 19
MainRun(sels, days, stops) ==
    /\ inflight["own"].pc = "idle"
    /\ \E in \in MainInputs(ui, WidgetsShown, ListedIds, sels, days) :
          \/ /\ ui' = StoppedEarly(ui, in)
             /\ roll' = RollIdle
             /\ UNCHANGED <<core, catalog, peer, inflight>>
          \/ /\ MemoFresh(catalog.memo, now)
             /\ catalog' = CatalogAfter(catalog,
                                        FetchCoinList(catalog.memo, now, "none"))
             /\ RunMain(in, stops)
          \/ /\ ~MemoFresh(catalog.memo, now)
             /\ catalog.nreq < MaxListings
             /\ inflight' = [inflight EXCEPT !["own"] =
                                [pc |-> "listing", t |-> now, end |-> now, run |-> in]]
             /\ roll' = RollIdle
             /\ UNCHANGED <<core, catalog, ui, peer>>

\* the request of line 19 is over: the run goes on with the list, or it is
\* stopped in the st.error of line 24, or the error of line 21 ends it
RunListed(stops) ==
    /\ inflight["own"].pc = "listing"
    /\ inflight["own"].run # NoRunContext
    /\ \E resp \in CatalogResponses :
          LET r == FetchCoinList(catalog.memo, inflight["own"].t, resp)
          IN \/ /\ catalog' = CatalogAfter(catalog, r)
                /\ RunMain(inflight["own"].run, stops)
             \/ /\ resp # "ok"
                /\ catalog' = CatalogStopped(catalog, r)
                /\ ui' = StoppedEarly(ui, inflight["own"].run)
                /\ inflight' = [inflight EXCEPT !["own"] = Idle]
                /\ roll' = RollIdle
                /\ UNCHANGED <<core, peer>>
             \/ /\ resp = "bad_json"
                /\ catalog' = CatalogRaised(catalog, r)
                /\ ui' = RaisedEarly(ui, inflight["own"].run, Raised("ValueError"))
                /\ inflight' = [inflight EXCEPT !["own"] = Idle]
                /\ roll' = RollIdle
                /\ UNCHANGED <<core, peer>>

\* the run's time.sleep is over
MainSend ==
    /\ SessionWake("own")
    /\ UNCHANGED <<catalog, ui, roll>>

\* the run's requests.get is over with the answer resp, and the run goes on
\* to its end, or the error of line 50 that line 56 does not catch ends it
\* at line 197 or 206
RunReceive(resp, stops) ==
    LET f == inflight["own"]
    IN /\ \E json_caught \in JsonCaught(resp) :
             SessionReturn("own", resp, json_caught, stops)
       /\ RunFinish(f.run.branch, ui, RunInputs(ui, f.run), call'.ret, TRUE)
       /\ UNCHANGED catalog

\* the runs of a session that changes the asset and moves the slider within
\* the hourly bucket
Main == MainRun(Selections, MainDays, StopPoints)

MainListed == RunListed(StopPoints)

MainReceive ==
    /\ inflight["own"].pc = "requesting"
    /\ \E resp \in MainResponses(inflight["own"].coin, inflight["own"].cur) :
          RunReceive(resp, StopPoints)

NextMain == Main \/ MainListed \/ MainSend \/ MainReceive

SpecMain == Init /\ [][NextMain]_vars

\* the runs of a session that moves the slider across the bucket boundary
MainSlider == MainRun(SliderSelections, SliderDays, StopPoints)

SliderReceive ==
    /\ inflight["own"].pc = "requesting"
    /\ \E resp \in SliderResponses(inflight["own"].coin, inflight["own"].cur,
                                   inflight["own"].days) :
          RunReceive(resp, StopPoints)

NextSlider == MainSlider \/ MainListed \/ MainSend \/ SliderReceive

SpecSlider == Init /\ [][NextSlider]_vars

\* calls of fetch_coin_list() spread over days
CatalogGaps == {0, COIN_LIST_TTL \div 2, COIN_LIST_TTL}

\* app.py:10-19: the call is answered from the memo, or blocks in the
\* request of line 19
CoinListCall ==
    \E gap \in CatalogGaps :
        /\ inflight["own"].pc = "idle"
        /\ now' = now + gap
        /\ IF MemoFresh(catalog.memo, now + gap)
           THEN /\ catalog' = CatalogAfter(catalog,
                                           FetchCoinList(catalog.memo, now + gap, "none"))
                /\ UNCHANGED inflight
           ELSE /\ catalog.nreq < MaxCatalogRequests
                /\ inflight' = [inflight EXCEPT !["own"] =
                                   [pc |-> "listing", t |-> now + gap, end |-> now + gap,
                                    run |-> NoRunContext]]
                /\ UNCHANGED catalog
        /\ UNCHANGED <<data_cache, last_api_call_time, last_request, nfetch, call,
                       ui, peer, roll>>

\* app.py:19-25: the request of line 19 is over
CoinListReturn ==
    /\ inflight["own"].pc = "listing"
    /\ inflight["own"].run = NoRunContext
    /\ \E resp \in CatalogResponses :
          catalog' \in CatalogOutcomes(catalog,
                                       FetchCoinList(catalog.memo, inflight["own"].t,
                                                     resp))
    /\ inflight' = [inflight EXCEPT !["own"] = Idle]
    /\ UNCHANGED <<data_cache, last_api_call_time, now, last_request, nfetch, call,
                   ui, peer, roll>>

NextCatalog == CoinListCall \/ CoinListReturn

SpecCatalog == Init /\ [][NextCatalog]_vars

(***************************************************************************)
(* Claims.                                                                 *)
(***************************************************************************)
FailKinds == {"http_error", "network_error"}

\* the last call showed message m
Emitted(m) == \E i \in 1..Len(call.msgs) : call.msgs[i] = m

\* the last call came to its end: the run was not stopped inside it
Returned == call.ret # NoReturn

\* the step ends a call of the session: the call is served from the cache,
\* the run is stopped inside it, or its request is answered and it goes on
\* to its return; call' is the record of that call
CallEnds == inflight'["own"].pc = "idle"

\* C1 as stated: in a session every (asset, currency, bucket) key sees at
\* most one network fetch, whatever the upstream answers.
C1_AtMostOneFetchPerKey == \A k \in AllKeys : nfetch[k] <= 1

\* C1 amended: once a key's entry is in the cache it stays there and no
\* further fetch is issued for that key; only fetches that left the key
\* absent (a failure, an empty body) are repeated.
C1_NoFetchOnceCached ==
    [][\A k \in DOMAIN data_cache :
          k \in DOMAIN data_cache' /\ nfetch'[k] = nfetch[k]]_vars

\* a key that was fetched twice (the first fetch failed), is cached now and
\* was just served from the cache
C1_Witness ==
    /\ call.hit
    /\ call.request = NoRequest
    /\ nfetch[call.key] = 2

\* C2 as stated: the starts of any two consecutive HTTP requests are at least
\* MIN_TIME_BETWEEN_CALLS apart, whether the earlier one succeeded or failed.
C2_SpacingAfterAnyRequest ==
    [][(CallEnds /\ call'.request # NoRequest /\ last_request # NoRequest)
          => call'.request.start - last_request.start >= MIN_TIME_BETWEEN_CALLS]_vars

\* C2 amended: when the earlier of two consecutive HTTP requests succeeded,
\* the later one starts at least MIN_TIME_BETWEEN_CALLS after the earlier
\* one's completion, hence after its start.
C2_SpacingAfterSuccess ==
    [][(CallEnds /\ call'.request # NoRequest /\ last_request.kind = "ok")
          => /\ call'.request.start >= last_request.end + MIN_TIME_BETWEEN_CALLS
             /\ call'.request.start - last_request.start >= MIN_TIME_BETWEEN_CALLS]_vars

\* a request that followed a successful one and had to wait exactly the
\* rest of the cooldown
C2_Witness ==
    /\ call.request # NoRequest
    /\ Emitted("rate_limit_wait")
    /\ call.request.kind = "http_error"
    /\ call.request.start = last_api_call_time + MIN_TIME_BETWEEN_CALLS

\* C3: a call uses the hourly bucket (key <asset>_<currency>_hourly_90, fetch
\* width 90) exactly when requestedDays <= 90 and the daily bucket (key
\* <asset>_<currency>_daily_365, fetch width 365) exactly when it is > 90.
C3_BucketSelection ==
    call # NoCall =>
        LET hourly == call.coin \o "_" \o call.cur \o "_hourly_90"
            daily == call.coin \o "_" \o call.cur \o "_daily_365"
        IN /\ (call.days <= 90) <=> (call.key = hourly)
           /\ (call.days > 90) <=> (call.key = daily)
           /\ call.request # NoRequest =>
                 /\ (call.days <= 90) <=> (call.request.days = 90)
                 /\ (call.days > 90) <=> (call.request.days = 365)
           /\ call.ret.type = "dict" => call.key \in DOMAIN data_cache

\* a call with requestedDays = 90 that fetched the hourly bucket
C3_Witness ==
    /\ call.days = 90
    /\ call.key = "bitcoin_usd_hourly_90"
    /\ call.request.kind = "ok"
    /\ call.request.days = 90
    /\ call.ret.type = "dict"

\* C4: a call whose key is already cached issues no network call and leaves
\* data_cache and last_api_call_time as they were.
C4_CacheHitFrame ==
    [][(CallEnds /\ call'.key \in DOMAIN data_cache)
          => /\ call'.request = NoRequest
             /\ nfetch' = nfetch
             /\ data_cache' = data_cache
             /\ last_api_call_time' = last_api_call_time]_vars

\* a call served from the cache after a successful fetch set the clock
C4_Witness ==
    /\ call.hit
    /\ call.ret.type = "dict"
    /\ call.request = NoRequest
    /\ last_api_call_time > 0
    /\ call.key \in DOMAIN data_cache

\* C5: when the key is absent and the fetch fails with an HTTP or network
\* error, the call, if the run is not stopped inside it, returns None, and
\* the key stays absent; a call for an absent key that runs to its end
\* always goes to the fetcher.
C5_FailureNotCached ==
    [][CallEnds
          => /\ (call'.key \notin DOMAIN data_cache /\ call'.ret # NoReturn)
                   => call'.request # NoRequest
             /\ call'.request.kind \in FailKinds
                   => /\ call'.ret \in {None, NoReturn}
                      /\ call'.key \notin DOMAIN data_cache'
                      /\ data_cache' = data_cache]_vars

\* a second fetch for a key whose first fetch failed, failing again
C5_Witness ==
    /\ call.request.kind = "network_error"
    /\ call.ret = None
    /\ nfetch[call.key] = 2
    /\ call.key \notin DOMAIN data_cache

\* the last n points of series s, oldest first (n <= Len(s))
LastPoints(s, n) == [i \in 1..n |-> s[Len(s) - n + i]]

\* C6 as stated: whenever the fetch for an absent key gets a 2xx response
\* whose body parses as JSON, the cache then holds that response under the
\* key and the call returns a slice of it, not a failure.  (Of calls that
\* came to their end.)
C6_AnyJsonIsCached ==
    (call.request.kind = "ok" /\ Returned)
        => /\ call.key \in DOMAIN data_cache
           /\ data_cache[call.key] = call.request.body
           /\ call.ret.type = "dict"

\* C6 amended: whenever the fetch for an absent key gets a 2xx response
\* whose body is a JSON object holding 'prices' and 'total_volumes', the
\* cache then holds that response under the key and the call, if the run is
\* not stopped inside it, returns trailing slices of its two series.
C6_SeriesBodyIsCached ==
    (call.request.kind = "ok" /\ HasBothSeries(call.request.body))
        => /\ call.key \in DOMAIN data_cache
           /\ data_cache[call.key] = call.request.body
           /\ Returned
                 => /\ call.ret.type = "dict"
                    /\ \A f \in {"prices", "total_volumes"} :
                          LET got == call.ret.items[f]
                              full == call.request.body.items[f]
                          IN /\ Len(got) <= Len(full)
                             /\ got = LastPoints(full, Len(got))

\* a fetch of ShortLen hourly points for requestedDays = 5, cached whole and
\* returned as its last 120 points
C6_Witness ==
    /\ call.request.kind = "ok"
    /\ call.days = 5
    /\ call.key \in DOMAIN data_cache
    /\ Len(data_cache[call.key].items.prices) = ShortLen
    /\ call.ret.type = "dict"
    /\ Len(call.ret.items.prices) = 120

\* C7: last_api_call_time changes only in a fetch whose HTTP exchange
\* succeeded, and then becomes the completion time of that exchange; a fetch
\* that fails, and a call served from the cache, leave it as it was.
C7_ClockOnlyOnSuccess ==
    [][/\ (CallEnds /\ call'.request.kind = "ok")
             => /\ last_api_call_time' = call'.request.end
                /\ last_api_call_time' = now'
                /\ last_api_call_time' > call'.request.start
       /\ ~(CallEnds /\ call'.request.kind = "ok")
             => last_api_call_time' = last_api_call_time]_vars

\* a fetch that met an unparsable body after an earlier success: the clock
\* still shows the earlier completion time
C7_Witness ==
    /\ call.request.kind = "bad_json"
    /\ last_api_call_time > 0
    /\ last_api_call_time < call.request.start
    /\ last_api_call_time = last_request.start - MIN_TIME_BETWEEN_CALLS

\* C8: for requestedDays in 1..90 and a cached hourly entry with at least
\* requestedDays * 24 points in each series, the call returns exactly the
\* last requestedDays * 24 points of each series, oldest first.
C8_HourlySlice ==
    (/\ Returned
     /\ call.days \in 1..90
     /\ call.key \in DOMAIN data_cache
     /\ HasBothSeries(CacheGet(data_cache, call.key))
     /\ \A f \in {"prices", "total_volumes"} :
           Len(data_cache[call.key].items[f]) >= call.days * 24)
        => /\ call.ret.type = "dict"
           /\ DOMAIN call.ret.items = {"prices", "total_volumes"}
           /\ \A f \in {"prices", "total_volumes"} :
                 call.ret.items[f] = LastPoints(data_cache[call.key].items[f],
                                                call.days * 24)

\* requestedDays = 5 served from a longer cached hourly series: 120 points,
\* the first of them the 120th from the end
C8_Witness ==
    /\ call.days = 5
    /\ call.hit
    /\ call.ret.type = "dict"
    /\ Len(data_cache[call.key].items.prices) > 120
    /\ Len(call.ret.items.prices) = 120
    /\ Len(call.ret.items.total_volumes) = 120
    /\ call.ret.items.prices[1] =
          data_cache[call.key].items.prices[Len(data_cache[call.key].items.prices) - 119]

\* C9: for requestedDays in 91..365 and a cached daily entry (with both
\* series), the call returns exactly the last min(requestedDays, length)
\* points of each series, oldest first.
C9_DailySlice ==
    (/\ Returned
     /\ call.days \in 91..365
     /\ call.key \in DOMAIN data_cache
     /\ HasBothSeries(CacheGet(data_cache, call.key)))
        => /\ call.ret.type = "dict"
           /\ DOMAIN call.ret.items = {"prices", "total_volumes"}
           /\ \A f \in {"prices", "total_volumes"} :
                 LET full == data_cache[call.key].items[f]
                 IN call.ret.items[f] = LastPoints(full, Min(call.days, Len(full)))

\* requestedDays = 91 served from a longer cached daily series
C9_Witness ==
    /\ call.days = 91
    /\ call.hit
    /\ call.ret.type = "dict"
    /\ Len(data_cache[call.key].items.prices) > 91
    /\ Len(call.ret.items.prices) = 91
    /\ Len(call.ret.items.total_volumes) = 91

\* the daily entry of the last call's coin and currency holds 365 points
DailyKeyOfCall == call.coin \o "_" \o call.cur \o "_daily_365"
HourlyKeyOfCall == call.coin \o "_" \o call.cur \o "_hourly_90"

Daily365Cached ==
    /\ call # NoCall
    /\ Returned
    /\ DailyKeyOfCall \in DOMAIN data_cache
    /\ HasBothSeries(data_cache[DailyKeyOfCall])
    /\ Len(data_cache[DailyKeyOfCall].items.prices) = 365
    /\ Len(data_cache[DailyKeyOfCall].items.total_volumes) = 365

\* C10 as stated: with a 365-point daily series cached for (asset,
\* currency), a call with requestedDays = 30 returns exactly the last 30
\* points of that daily series.
C10_Daily30 ==
    (Daily365Cached /\ call.days = 30)
        => /\ call.ret.type = "dict"
           /\ \A f \in {"prices", "total_volumes"} :
                 call.ret.items[f] = LastPoints(data_cache[DailyKeyOfCall].items[f], 30)

\* C10 amended: with a 365-point daily series cached for (asset, currency),
\* a call with requestedDays = n in 91..365 returns exactly the last n
\* points of that daily series, oldest first; a call with requestedDays = 30
\* uses the hourly bucket instead: what it returns are the last 30 * 24
\* points (all, if fewer) of the hourly entry, never points of the daily one.
C10_DailyOnlyAbove90 ==
    Daily365Cached
        => /\ call.days \in 91..365
                 => /\ call.key = DailyKeyOfCall
                    /\ call.ret.type = "dict"
                    /\ \A f \in {"prices", "total_volumes"} :
                          call.ret.items[f] =
                              LastPoints(data_cache[DailyKeyOfCall].items[f], call.days)
           /\ call.days = 30
                 => /\ call.key = HourlyKeyOfCall
                    /\ call.ret.type = "dict"
                          => /\ HourlyKeyOfCall \in DOMAIN data_cache
                             /\ \A f \in {"prices", "total_volumes"} :
                                   LET full == data_cache[HourlyKeyOfCall].items[f]
                                   IN call.ret.items[f] =
                                          LastPoints(full, Min(30 * 24, Len(full)))

\* a 365-point daily series is cached and requestedDays = 30 was answered
\* from a freshly fetched hourly series
C10_Witness ==
    /\ Daily365Cached
    /\ call.days = 30
    /\ call.key = HourlyKeyOfCall
    /\ call.request.kind = "ok"
    /\ call.request.days = 90
    /\ call.ret.type = "dict"
    /\ Len(call.ret.items.prices) = ShortLen
    /\ call.ret.items.prices # LastPoints(data_cache[DailyKeyOfCall].items.prices, 30)

\* the cached hourly entry of the last call holds both series and its price
\* series is shorter than the requestedDays * 24 points asked for
FewerHourlyPoints ==
    /\ Returned
    /\ call.days \in 1..90
    /\ call.key \in DOMAIN data_cache
    /\ HasBothSeries(data_cache[call.key])
    /\ Len(data_cache[call.key].items.prices) < call.days * 24

\* the call returned every point of the cached price series
ReturnsAllPrices ==
    /\ call.ret.type = "dict"
    /\ call.ret.items.prices = data_cache[call.key].items.prices

\* C11 as stated: for every requestedDays in 1..90, whenever the cached hourly
\* series has fewer than requestedDays * 24 points, the call returns all
\* available points and shows the "fewer points" warning.
C11_PartialAlwaysSignalled ==
    FewerHourlyPoints => (ReturnsAllPrices /\ Emitted("partial_data"))

\* C11 amended: for every requestedDays in 2..90, whenever the cached hourly
\* entry holds both series and its price series has fewer than
\* requestedDays * 24 points, the call returns all available price points and
\* shows the "fewer points" warning; for requestedDays = 1 it returns all
\* available price points without the warning.
C11_PartialSignalledAboveOneDay ==
    FewerHourlyPoints
        => /\ ReturnsAllPrices
           /\ Emitted("partial_data") <=> (call.days > 1)

\* requestedDays = 2 served from a cached series of TinyLen points, all of
\* them returned under the warning
C11_Witness ==
    /\ call.days = 2
    /\ call.hit
    /\ FewerHourlyPoints
    /\ Len(call.ret.items.prices) = TinyLen
    /\ Emitted("partial_data")

\* C12: a call leaves every existing cache entry as it was: no entry is
\* removed or changed, and the only change data_cache can see is a new entry
\* under the requested key when that key was absent.
C12_EntriesUntouched ==
    [][/\ \A k \in DOMAIN data_cache :
             k \in DOMAIN data_cache' /\ data_cache'[k] = data_cache[k]
       /\ DOMAIN data_cache' \subseteq DOMAIN data_cache \cup {call'.key}
       /\ call'.key \in DOMAIN data_cache => data_cache' = data_cache]_vars

\* a fetch that added a second entry to the cache, next to the entry of
\* another key
C12_Witness ==
    /\ call.request.kind = "ok"
    /\ call.key \in DOMAIN data_cache
    /\ Cardinality(DOMAIN data_cache) = 2
    /\ \E k \in DOMAIN data_cache : k # call.key /\ HasBothSeries(data_cache[k])

\* the step is a call for the asset and currency of the call before it, with
\* requestedDays on the other side of the 90-day boundary, and it runs to
\* its end
CrossesBoundary ==
    /\ call # NoCall
    /\ call'.ret # NoReturn
    /\ call'.coin = call.coin
    /\ call'.cur = call.cur
    /\ (call.days <= 90) # (call'.days <= 90)

\* C13 as stated: when asset and currency stay the same and requestedDays
\* moves across the 90-day boundary, the bucket switches and the call with
\* the new requestedDays issues a new network fetch.
C13_CrossingAlwaysFetches ==
    [][CrossesBoundary
          => /\ call'.key # call.key
             /\ call'.request # NoRequest]_vars

\* C13 amended: when asset and currency stay the same and requestedDays
\* moves across the 90-day boundary, the bucket switches, and the call with
\* the new requestedDays issues a network fetch (of the new bucket's width)
\* exactly when the new bucket's key is not in the cache yet.
C13_CrossingFetchesIfAbsent ==
    [][CrossesBoundary
          => /\ call'.key # call.key
             /\ call'.request # NoRequest <=> call'.key \notin DOMAIN data_cache
             /\ call'.request # NoRequest
                   => call'.request.days = (IF call'.days <= 90 THEN 90 ELSE 365)]_vars

\* the two requests of a session: the hourly bucket, then, requestedDays
\* having moved above 90 for the same asset and currency, the daily bucket
C13_Witness ==
    /\ call.days > 90
    /\ call.request.kind = "ok"
    /\ call.request.days = 365
    /\ HourlyKeyOfCall \in DOMAIN data_cache
    /\ nfetch[HourlyKeyOfCall] = 1
    /\ nfetch[call.key] = 1
    /\ TotalRequests = 2

\* C14: whatever the upstream answers (an error status, a network failure, a
\* 2xx JSON body lacking 'prices' or 'total_volumes'), no exception escapes
\* get_cached_or_fetch_data, neither in the call that fetches nor in a later
\* call served from the cache.  The malformed body is left to one side: the
\* installed requests decides whether its error is caught at line 56.
C14_NoExceptionEscapes ==
    call.ret.type = "exception" => call.request.kind = "bad_json"

\* C15: a run of main enters the processing branch only with both sliced
\* arrays non-empty and of equal length; with an empty array it takes the
\* failure branch.
C15_ProcessesOnlyNonEmpty ==
    ui.run.outcome = "processed"
        => /\ Len(ui.run.data.items.prices) > 0
           /\ Len(ui.run.data.items.total_volumes) > 0
           /\ Len(ui.run.data.items.prices) = Len(ui.run.data.items.total_volumes)

\* C16: fetch_coin_list memoizes its result for 24 hours from a successful
\* call to the catalog endpoint: within that period no call issues a request,
\* after it the next call does, and a call that failed (returning []) starts
\* no such period, so the call after a failure contacts the endpoint again.
C16_MemoFromSuccessOnly ==
    [][CallEnds
          => /\ (catalog.last_ok >= 0
                    /\ now' - catalog.last_ok < COIN_LIST_TTL)
                   => ~catalog'.call.requested
             /\ (catalog.last_ok >= 0
                    /\ now' - catalog.last_ok >= COIN_LIST_TTL)
                   => catalog'.call.requested
             /\ (catalog.call.requested /\ catalog.call.resp # "ok")
                   => catalog'.call.requested]_vars

\* C17 as stated: the throttle clock is one scalar of the process: after any
\* caller's successful request, completed at t, every call attempted from
\* then on by any caller, of another session of the process too, sends its
\* request at t + MIN_TIME_BETWEEN_CALLS or later.
C17_ProcessWideSpacing ==
    \A s \in Sessions :
        inflight[s].pc = "requesting"
            => \A o \in Sessions :
                  (SessionClock(o) > 0 /\ SessionClock(o) <= inflight[s].t)
                      => inflight[s].start >= SessionClock(o) + MIN_TIME_BETWEEN_CALLS

\* C17 amended: the throttle clock is one scalar per user session, shared by
\* all callers of that session: a request starts MIN_TIME_BETWEEN_CALLS or
\* more after the session's own last successful request, and a call that
\* waits waits for its own session's clock only, not for a request another
\* session of the process has completed.
C17_SessionWideSpacing ==
    \A s \in Sessions :
        inflight[s].pc # "idle"
            => /\ inflight[s].start >= SessionClock(s) + MIN_TIME_BETWEEN_CALLS
               /\ inflight[s].waited
                     => inflight[s].start = SessionClock(s) + MIN_TIME_BETWEEN_CALLS

\* the second session's first request, sent without waiting inside the
\* cooldown of a request the first session has completed
C17_Witness ==
    /\ inflight["peer"].pc = "requesting"
    /\ peer.nreq = 0
    /\ ~inflight["peer"].waited
    /\ last_api_call_time > 0
    /\ last_api_call_time <= inflight["peer"].t
    /\ inflight["peer"].start < last_api_call_time + MIN_TIME_BETWEEN_CALLS

RECURSIVE SumFromTo(_, _, _)
\* s[a] + ... + s[b]
SumFromTo(s, a, b) == IF a > b THEN 0 ELSE s[a] + SumFromTo(s, a + 1, b)

\* entry e is the mean of the k prices ending at position j (from 1)
IsMeanOfWindow(e, j, k) ==
    /\ e.type = "mean"
    /\ e.n = k
    /\ e.sum = SumFromTo(roll.prices, j - k + 1, j)

\* C18: for k = 10 and k = 30, SMA_k is defined exactly at the indices
\* i >= k - 1 (from 0), where it is the mean of price[i-k+1..i], and
\* undefined below; of the 120 points of requestedDays = 5 the first 9
\* SMA_10 entries and the first 29 SMA_30 entries are null and all later
\* ones are defined.
C18_SmaDefinedFromWindow ==
    /\ \A k \in {10, 30} :
          /\ Len(roll.out[k]) = roll.i
          /\ \A j \in 1..roll.i :
                IF j - 1 >= k - 1 THEN IsMeanOfWindow(roll.out[k][j], j, k)
                ELSE roll.out[k][j] = NaN
    /\ (roll.i = 120 /\ Len(roll.prices) = 120)
          => /\ \A j \in 1..9 : roll.out[10][j] = NaN
             /\ \A j \in 10..120 : roll.out[10][j].type = "mean"
             /\ \A j \in 1..29 : roll.out[30][j] = NaN
             /\ \A j \in 30..120 : roll.out[30][j].type = "mean"

\* the pass over the 120 prices of requestedDays = 5 is complete; its 30th
\* SMA_30 entry is the mean of the first 30 prices
C18_Witness ==
    /\ Len(roll.prices) = 120
    /\ roll.i = 120
    /\ roll.out[30][29] = NaN
    /\ roll.out[30][30] = Mean(SumFromTo(roll.prices, 1, 30), 30)
    /\ roll.out[10][120] = Mean(SumFromTo(roll.prices, 111, 120), 10)

\* C19: after every run of main that shows the data as "processed for
\* days_input days", the data handed to the indicator pipeline is the slice
\* get_cached_or_fetch_data yields for the selected asset, currency and
\* days_input; also after a rerun in which no widget changed and the button
\* was not clicked.
C19_ProcessedDataIsCurrentSlice ==
    (inflight["own"].pc = "idle" /\ ui.run.outcome = "processed")
        => ui.run.data =
              FinalData(CacheGet(data_cache,
                                 CacheKey(ui.selected_coin_id, ui.vs_currency,
                                          ui.days_input)),
                        ui.days_input)

\* C20: apart from the automatic initial load (the run that finds
\* initial_load_done false at line 180), a run of main issues a request to
\* the market-chart endpoint only when the button was clicked in that run;
\* a changed slider or selectbox alone never leads to a network call.
C20_RequestsOnlyOnClick ==
    [][(nfetch' # nfetch /\ ~ui'.run.first) => ui'.run.clicked]_vars

\* the step takes a run of main from its start, or from the return of
\* fetch_coin_list, past line 182: ui is the session state the run found
PassesLine182 ==
    /\ inflight["own"].pc \in {"idle", "listing"}
    /\ \/ inflight'["own"].pc \in {"sleeping", "requesting"}
       \/ inflight'["own"].pc = "idle" /\ ui'.run.branch # "none"

\* the call of get_cached_or_fetch_data the run makes in that step, blocked
\* in it or through with it, and the way the run came to it
CallOfRun ==
    IF inflight'["own"].pc = "idle"
    THEN [coin |-> call'.coin, cur |-> call'.cur, days |-> call'.days,
          branch |-> ui'.run.branch, click |-> ui'.run.clicked]
    ELSE [coin |-> inflight'["own"].coin, cur |-> inflight'["own"].cur,
          days |-> inflight'["own"].days, branch |-> inflight'["own"].run.branch,
          click |-> inflight'["own"].run.click]

\* app.py:184-185 of that run: the selected asset or currency is not the
\* one the session last went to fetch
AssetOrCurrencyChanged ==
    /\ ui.has_flag
    /\ \/ ui'.selected_coin_id # ui.current_coin_id
       \/ ui'.vs_currency # ui.current_vs_currency

\* C21: the first run of main that comes to line 180 calls
\* get_cached_or_fetch_data for the selected asset, currency and days
\* without a click, and does so once per session: initial_load_done, set in
\* that run, is never reset, and every later run makes the call only on a
\* click, on an asset or currency that is not the one last gone to fetch,
\* or on a days_input that is not the one last processed, over non-empty
\* previous data.
C21_InitialLoadOnce ==
    [][/\ ui.initial_load_done => ui'.initial_load_done
       /\ PassesLine182
             => /\ ui'.initial_load_done
                /\ ~ui.initial_load_done
                      => /\ CallOfRun.branch = "fetch"
                         /\ ~CallOfRun.click
                         /\ CallOfRun.coin = ui'.selected_coin_id
                         /\ CallOfRun.cur = ui'.vs_currency
                         /\ CallOfRun.days = ui'.days_input
                /\ (ui.initial_load_done /\ CallOfRun.branch = "fetch")
                      => CallOfRun.click \/ AssetOrCurrencyChanged
                /\ CallOfRun.branch = "reslice"
                      => /\ ui.initial_load_done
                         /\ ui'.days_input # ui.last_processed_days_input
                         /\ Truthy(ui.last_full_range_data)]_vars

\* a run in which no widget changed and the button was not clicked made the
\* call and processed its slice: the run before it, in which the slider was
\* moved, was stopped in the call, so that days_input was still not the one
\* last processed
C21_Witness ==
    /\ inflight["own"].pc = "idle"
    /\ ui.initial_load_done
    /\ ui.run.branch = "reslice"
    /\ ui.run.changed = {}
    /\ ~ui.run.clicked
    /\ ~ui.run.first
    /\ ui.run.outcome = "processed"
    /\ call.hit
    /\ call.days = ui.days_input
    /\ ui.days_input = ui.last_processed_days_input
    /\ TotalRequests = 1

\* C22: once get_cached_or_fetch_data has returned failure in the fetch
\* branch, so that last_full_range_data is None, a run in which at most
\* days_input changed and the button was not clicked issues no network call
\* and shows the failure message; a request goes out only in a run with a
\* click or an asset or currency change, and then through the rate limiter,
\* MIN_TIME_BETWEEN_CALLS or more after the session's last successful one.
\* Stated of the runs that are not stopped before line 197 or 206 and that
\* follow a run that was not stopped before line 186 (a selection changed in
\* a run stopped there is acted on by the run after it).
C22_NoSilentRetry ==
    [][(/\ ui.initial_load_done
        /\ ui.last_full_range_data = None
        /\ inflight'["own"].pc = "idle"
        /\ ui.run.branch # "none"
        /\ ui'.run.branch # "none")
          => /\ (~ui'.run.clicked /\ ui'.run.changed \subseteq {"days"})
                   => /\ nfetch' = nfetch
                      /\ ~ui'.run.requested
                      /\ ui'.run.branch = "reuse"
                      /\ ui'.run.outcome = "failure"
                      /\ ui'.last_full_range_data = None
             /\ nfetch' # nfetch
                   => /\ ui'.run.clicked \/ ui'.run.changed \cap {"coin", "cur"} # {}
                      /\ ui'.run.branch = "fetch"
                      /\ call'.request # NoRequest
                      /\ call'.request.start
                            >= last_api_call_time + MIN_TIME_BETWEEN_CALLS]_vars

\* after a fetch that failed on a body that is not JSON the slider was
\* moved, the button not clicked: the run issued no request and showed the
\* failure message
C22_Witness ==
    /\ ui.last_full_range_data = None
    /\ call.request.kind = "bad_json"
    /\ call.ret = None
    /\ ui.run.changed = {"days"}
    /\ ~ui.run.clicked
    /\ ui.run.branch = "reuse"
    /\ ui.run.outcome = "failure"
    /\ ui.days_input # ui.last_processed_days_input
    /\ TotalRequests = 1

====
